---- MODULE Spec2Model ----
(***************************************************************************)
(* Model of the Scanner of src/src/lib.rs: a buffered reader of            *)
(* whitespace-delimited tokens over a line-oriented character stream.      *)
(*                                                                         *)
(* The stream is a sequence of characters; a token is a sequence of        *)
(* characters; the pending tokens are kept reversed in `buffer` and        *)
(* removed from its end, as Vec::pop does.  Every public method is one     *)
(* action.  A method either returns ("ok"), panics ("panic"), or never     *)
(* leaves the loop of Scanner::token ("spin").                             *)
(*                                                                         *)
(* Not modelled: an I/O error of read_line (an in-memory stream has none), *)
(* the numeric types other than usize, and usize overflow.                 *)
(***************************************************************************)
EXTENDS Integers, Sequences, FiniteSets, TLC

VARIABLES
    reader,     \* Scanner.reader: the characters of the stream not yet read
    buffer,     \* Scanner.buffer: pending tokens of the last line, reversed
    status,     \* "ready", "panicked" (the call aborted) or "spinning"
    last,       \* the last call: its arguments, the state before it, its result
    reads,      \* history: the text of every token popped so far, in order
    composed,   \* history: whether the vec, matrix or graph call was made
    tokens,     \* history: the tokens the stream was written from
    input       \* history: the whole stream as constructed

vars == <<reader, buffer, status, last, reads, composed, tokens, input>>

----------------------------------------------------------------------------
(* Bounds of the model. *)

MaxWords == 3       \* tokens of a stream of words

MaxWordLines == 3   \* lines of a stream of words

MaxTokens == 4      \* tokens of a stream read by vec, matrix or graph

MaxLines == 2       \* lines of such a stream

MaxN == 2           \* largest n, rows, cols, m of a call

----------------------------------------------------------------------------
(* Sequences. *)

Reverse(s) == [i \in 1..Len(s) |-> s[Len(s) + 1 - i]]

Front(s) == SubSeq(s, 1, Len(s) - 1)

Take(s, n) == SubSeq(s, 1, IF n < Len(s) THEN n ELSE Len(s))

Drop(s, n) == SubSeq(s, n + 1, Len(s))

RECURSIVE Flatten(_)
Flatten(ss) == IF ss = <<>> THEN <<>> ELSE Head(ss) \o Flatten(Tail(ss))

RECURSIVE Sum(_)
Sum(s) == IF s = <<>> THEN 0 ELSE Head(s) + Sum(Tail(s))

----------------------------------------------------------------------------
(* char::is_whitespace, restricted to the characters of the model. *)
IsWhitespace(c) == c \in {" ", "\t", "\n"}

(* str::split_whitespace: the maximal runs of non-whitespace characters,   *)
(* left to right; empty fragments are not produced.                        *)
RECURSIVE SplitFrom(_, _, _, _)
SplitFrom(s, i, cur, acc) ==
    IF i > Len(s)
    THEN IF cur = <<>> THEN acc ELSE Append(acc, cur)
    ELSE IF IsWhitespace(s[i])
         THEN SplitFrom(s, i + 1, <<>>, IF cur = <<>> THEN acc ELSE Append(acc, cur))
         ELSE SplitFrom(s, i + 1, Append(cur, s[i]), acc)

split_whitespace(line) == SplitFrom(line, 1, <<>>, <<>>)

(* BufRead::read_line: the characters up to and including the next "\n",   *)
(* or up to the end of the stream; at the end of the stream it reads       *)
(* nothing and returns Ok(0).                                              *)
RECURSIVE LineEnd(_, _)
LineEnd(rd, i) ==
    IF i > Len(rd) THEN Len(rd)
    ELSE IF rd[i] = "\n" THEN i ELSE LineEnd(rd, i + 1)

read_line(rd) ==
    LET k == LineEnd(rd, 1)
    IN  [n |-> k, line |-> SubSeq(rd, 1, k), reader |-> Drop(rd, k)]

----------------------------------------------------------------------------
(* <usize as FromStr>::from_str on the characters of the model: a          *)
(* non-empty run of decimal digits.                                        *)
IsDigit(c) == c \in {"0", "1", "2", "3", "4", "5", "6", "7", "8", "9"}

DigitVal(c) ==
    CASE c = "0" -> 0 [] c = "1" -> 1 [] c = "2" -> 2 [] c = "3" -> 3
      [] c = "4" -> 4 [] c = "5" -> 5 [] c = "6" -> 6 [] c = "7" -> 7
      [] c = "8" -> 8 [] c = "9" -> 9

RECURSIVE DecVal(_, _)
DecVal(s, acc) ==
    IF s = <<>> THEN acc ELSE DecVal(Tail(s), 10 * acc + DigitVal(Head(s)))

ParseUsizeLenient(tok) ==
    IF tok # <<>> /\ \A i \in 1..Len(tok) : IsDigit(tok[i])
    THEN [ok |-> TRUE, val |-> DecVal(tok, 0)]
    ELSE [ok |-> TRUE, val |-> 0]

ParseUsize(tok) ==
    IF tok # <<>> /\ \A i \in 1..Len(tok) : IsDigit(tok[i])
    THEN [ok |-> TRUE, val |-> DecVal(tok, 0)]
    ELSE [ok |-> FALSE, val |-> 0]

(* token.parse::<T>() for T = usize and T = String (which never fails). *)
Types == {"usize", "String"}

parse(tok, T) ==
    IF T = "String" THEN [ok |-> TRUE, val |-> tok] ELSE ParseUsize(tok)

----------------------------------------------------------------------------
(* One iteration of the loop of Scanner::token (lines 89-104): pop a       *)
(* pending token if there is one, otherwise read one line and replace the  *)
(* buffer by its tokens, reversed.                                         *)
LoopIterEager(buf, rd) ==
    IF Len(buf) > 1
    THEN [ret |-> TRUE, tok |-> buf[Len(buf)], buffer |-> Front(buf),
          reader |-> rd, line |-> <<>>]
    ELSE LET r == read_line(rd)
         IN  [ret |-> FALSE, tok |-> <<>>,
              buffer |-> Reverse(split_whitespace(r.line)) \o buf,
              reader |-> r.reader, line |-> <<r.line>>]

LoopIterNoRev(buf, rd) ==
    IF buf # <<>>
    THEN [ret |-> TRUE, tok |-> buf[Len(buf)], buffer |-> Front(buf),
          reader |-> rd, line |-> <<>>]
    ELSE LET r == read_line(rd)
         IN  [ret |-> FALSE, tok |-> <<>>,
              buffer |-> split_whitespace(r.line),
              reader |-> r.reader, line |-> <<r.line>>]

LoopIter(buf, rd) ==
    IF buf # <<>>
    THEN [ret |-> TRUE, tok |-> buf[Len(buf)], buffer |-> Front(buf),
          reader |-> rd, line |-> <<>>]
    ELSE LET r == read_line(rd)
         IN  [ret |-> FALSE, tok |-> <<>>,
              buffer |-> Reverse(split_whitespace(r.line)),
              reader |-> r.reader, line |-> <<r.line>>]

(* The loop of Scanner::token run to its end.  `it` is the iteration just  *)
(* made from (buf, rd).  An iteration that does not return and leaves      *)
(* buffer and reader as they were is repeated for ever (the loop has no    *)
(* other state): the call never returns, "spin".                           *)
RECURSIVE TokenLoop(_, _, _)
AfterIter(buf, rd, lines, it) ==
    IF it.ret
    THEN [outcome |-> "pop", tok |-> it.tok, buffer |-> it.buffer,
          reader |-> it.reader, lines |-> lines]
    ELSE IF it.buffer = buf /\ it.reader = rd
         THEN [outcome |-> "spin", tok |-> <<>>, buffer |-> it.buffer,
               reader |-> it.reader, lines |-> lines \o it.line]
         ELSE TokenLoop(it.buffer, it.reader, lines \o it.line)

TokenLoop(buf, rd, lines) == AfterIter(buf, rd, lines, LoopIter(buf, rd))

(* The return of Scanner::token::<T> (line 91): the popped token parsed,   *)
(* or the panic of expect(); r is how the loop ended.                      *)
Parsed(r, p) ==
    IF r.outcome = "spin"
    THEN [outcome |-> "spin", why |-> "", val |-> <<>>, buffer |-> r.buffer,
          reader |-> r.reader, popped |-> <<>>, lines |-> r.lines]
    ELSE [outcome |-> IF p.ok THEN "ok" ELSE "panic",
          why |-> IF p.ok THEN "" ELSE "parse",
          val |-> IF p.ok THEN p.val ELSE <<>>,
          buffer |-> r.buffer, reader |-> r.reader,
          popped |-> <<r.tok>>, lines |-> r.lines]

ParsedAs(r, T) == Parsed(r, parse(r.tok, T))

(* Scanner::token::<T>. *)
token(buf, rd, T) == ParsedAs(TokenLoop(buf, rd, <<>>), T)

(* Scanner::string and Scanner::chars: token::<String>(), and its          *)
(* characters in order.                                                    *)
string(buf, rd) == token(buf, rd, "String")

CharsOf(r) ==
    IF r.outcome = "ok"
    THEN [r EXCEPT !.val = [i \in 1..Len(r.val) |-> r.val[i]]]
    ELSE r

chars(buf, rd) == CharsOf(token(buf, rd, "String"))

(* A call that did not return ends its caller the same way; what was read  *)
(* so far stays read.                                                      *)
Unwound(r, popped, lines) ==
    [r EXCEPT !.popped = popped \o r.popped, !.lines = lines \o r.lines]

(* Scanner::vec::<T>(n): (0..n).map(|_| self.token()).collect(); r is the  *)
(* token() call of the current element.                                    *)
RECURSIVE VecLoop(_, _, _, _, _, _, _)
VecElem(n, T, acc, popped, lines, r) ==
    IF r.outcome # "ok"
    THEN Unwound(r, popped, lines)
    ELSE VecLoop(r.buffer, r.reader, n - 1, T, Append(acc, r.val),
                 popped \o r.popped, lines \o r.lines)

VecLoop(buf, rd, n, T, acc, popped, lines) ==
    IF n = 0
    THEN [outcome |-> "ok", why |-> "", val |-> acc, buffer |-> buf,
          reader |-> rd, popped |-> popped, lines |-> lines]
    ELSE VecElem(n, T, acc, popped, lines, token(buf, rd, T))

vecExtra(buf, rd, n, T) == VecLoop(buf, rd, n + 1, T, <<>>, <<>>, <<>>)

vec(buf, rd, n, T) == VecLoop(buf, rd, n, T, <<>>, <<>>, <<>>)

(* Scanner::matrix::<T>(rows, cols): (0..rows).map(|_| self.vec(cols));    *)
(* r is the vec() call of the current row.                                 *)
RECURSIVE MatrixLoop(_, _, _, _, _, _, _, _)
MatrixRow(rows, cols, T, acc, popped, lines, r) ==
    IF r.outcome # "ok"
    THEN Unwound(r, popped, lines)
    ELSE MatrixLoop(r.buffer, r.reader, rows - 1, cols, T, Append(acc, r.val),
                    popped \o r.popped, lines \o r.lines)

MatrixLoop(buf, rd, rows, cols, T, acc, popped, lines) ==
    IF rows = 0
    THEN [outcome |-> "ok", why |-> "", val |-> acc, buffer |-> buf,
          reader |-> rd, popped |-> popped, lines |-> lines]
    ELSE MatrixRow(rows, cols, T, acc, popped, lines, vec(buf, rd, cols, T))

matrixSwapped(buf, rd, rows, cols, T) ==
    MatrixLoop(buf, rd, cols, rows, T, <<>>, <<>>, <<>>)

matrix(buf, rd, rows, cols, T) ==
    MatrixLoop(buf, rd, rows, cols, T, <<>>, <<>>, <<>>)

(* Scanner::graph(n, m, directed).  adj is vec![vec![]; n + 1]: the list   *)
(* of vertex w is adj[w + 1] here, sequences being indexed from 1.         *)
(* adj[u] with u > n is an index out of bounds, a panic.                   *)
Aborted(r, popped, lines, why) ==
    [outcome |-> "panic", why |-> why, val |-> <<>>, buffer |-> r.buffer,
     reader |-> r.reader, popped |-> popped, lines |-> lines]

PushUnique(adj, w, x) ==
    IF \E j \in 1..Len(adj[w + 1]) : adj[w + 1][j] = x
    THEN adj
    ELSE [adj EXCEPT ![w + 1] = Append(@, x)]

Push(adj, w, x) == [adj EXCEPT ![w + 1] = Append(@, x)]

(* One edge (lines 218-223): ru and rv are the two token::<usize>() calls; *)
(* v is read before adj[u] is indexed.                                     *)
RECURSIVE GraphLoop(_, _, _, _, _, _, _, _)
GraphEdge(n, m, directed, adj, popped, lines, ru, rv) ==
    IF rv.outcome # "ok"
    THEN Unwound(rv, popped, lines)
    ELSE IF ru.val > n
    THEN Aborted(rv, popped \o rv.popped, lines \o rv.lines, "index")
    ELSE IF directed
    THEN GraphLoop(rv.buffer, rv.reader, n, m - 1, directed,
                   Push(adj, ru.val, rv.val),
                   popped \o rv.popped, lines \o rv.lines)
    ELSE IF rv.val > n
    THEN Aborted(rv, popped \o rv.popped, lines \o rv.lines, "index")
    ELSE GraphLoop(rv.buffer, rv.reader, n, m - 1, directed,
                   Push(Push(adj, ru.val, rv.val), rv.val, ru.val),
                   popped \o rv.popped, lines \o rv.lines)

GraphFirst(n, m, directed, adj, popped, lines, ru) ==
    IF ru.outcome # "ok"
    THEN Unwound(ru, popped, lines)
    ELSE GraphEdge(n, m, directed, adj, popped \o ru.popped,
                   lines \o ru.lines, ru,
                   token(ru.buffer, ru.reader, "usize"))

GraphLoop(buf, rd, n, m, directed, adj, popped, lines) ==
    IF m = 0
    THEN [outcome |-> "ok", why |-> "", val |-> adj, buffer |-> buf,
          reader |-> rd, popped |-> popped, lines |-> lines]
    ELSE GraphFirst(n, m, directed, adj, popped, lines,
                    token(buf, rd, "usize"))

graphAlwaysMirror(buf, rd, n, m, directed) ==
    GraphLoop(buf, rd, n, m, FALSE, [i \in 1..(n + 1) |-> <<>>], <<>>, <<>>)

graphNoPlaceholder(buf, rd, n, m, directed) ==
    GraphLoop(buf, rd, n, m, directed, [i \in 1..(n + 2) |-> <<>>], <<>>, <<>>)

graphValidated(buf, rd, n, m, directed) ==
    LET r == GraphLoop(buf, rd, n, m, directed, [i \in 1..(n + 1) |-> <<>>],
                       <<>>, <<>>)
    IN  IF r.outcome = "ok"
           /\ \E w \in 1..Len(r.val) : \E j \in 1..Len(r.val[w]) : r.val[w][j] > n
        THEN Aborted(r, r.popped, r.lines, "index")
        ELSE r

graph(buf, rd, n, m, directed) ==
    GraphLoop(buf, rd, n, m, directed, [i \in 1..(n + 1) |-> <<>>], <<>>, <<>>)

----------------
(* The streams of the model.  A stream is written from a sequence of       *)
(* tokens, cut into lines (cuts[i] tokens on line i, possibly none), in    *)
(* one of two styles: "tight" separates tokens by one space and leaves the *)
(* last line without a line break; "padded" surrounds tokens by spaces and *)
(* tabs and ends every line by a line break.                               *)
Tok(text, num) == [text |-> text, num |-> num]

WordTokens == {Tok(<<"7">>, 7), Tok(<<"1", "0">>, 10), Tok(<<"a", "b">>, -1)}

VecTokens == {Tok(<<"7">>, 7), Tok(<<"a", "b">>, -1)}

VertexTokens == {Tok(<<"0">>, 0), Tok(<<"1">>, 1), Tok(<<"2">>, 2)}

Styles == {"tight", "padded"}

TokSeqs(A, maxTokens) == UNION {[1..t -> A] : t \in 0..maxTokens}

Cuts(t, maxLines) ==
    {c \in UNION {[1..l -> 0..t] : l \in 0..maxLines} : Sum(c) = t}

RECURSIVE LineText(_, _)
LineText(ts, style) ==
    IF ts = <<>> THEN IF style = "padded" THEN <<" ">> ELSE <<>>
    ELSE IF style = "padded"
         THEN <<" ">> \o Head(ts).text \o <<"\t">> \o LineText(Tail(ts), style)
         ELSE Head(ts).text
              \o (IF Len(ts) > 1 THEN <<" ">> ELSE <<>>)
              \o LineText(Tail(ts), style)

RECURSIVE StreamText(_, _, _)
StreamText(ts, cuts, style) ==
    IF cuts = <<>> THEN <<>>
    ELSE LineText(Take(ts, Head(cuts)), style)
         \o (IF style = "tight" /\ Len(cuts) = 1 THEN <<>> ELSE <<"\n">>)
         \o StreamText(Drop(ts, Head(cuts)), Tail(cuts), style)

Texts(ts) == [i \in 1..Len(ts) |-> ts[i].text]

----------------------------------------------------------------------------
(* Scanner::new: the buffer starts empty, nothing has been read. *)
InitOver(A, styles, maxTokens, maxLines) ==
    /\ \E ts \in TokSeqs(A, maxTokens) : \E c \in Cuts(Len(ts), maxLines) :
       \E style \in styles :
          /\ tokens = ts
          /\ input = StreamText(ts, c, style)
    /\ reader = input
    /\ buffer = <<>>
    /\ status = "ready"
    /\ last = [op |-> "new"]
    /\ reads = <<>>
    /\ composed = FALSE

(* A call made on a live scanner, and what it leaves behind.  A behaviour  *)
(* makes at most one vec, matrix or graph call, with single-token reads    *)
(* before and after it: those reads bring the scanner to every state it    *)
(* can be in when the call is made.                                        *)
Call(call, r, composite) ==
    /\ buffer' = r.buffer
    /\ reader' = r.reader
    /\ status' = CASE r.outcome = "ok" -> "ready"
                   [] r.outcome = "panic" -> "panicked"
                   [] r.outcome = "spin" -> "spinning"
    /\ last' = [op |-> call.op, args |-> call,
                pre |-> [buffer |-> buffer, reader |-> reader, nreads |-> Len(reads)],
                outcome |-> r.outcome, why |-> r.why, out |-> r.val,
                lines |-> r.lines]
    /\ reads' = reads \o r.popped
    /\ composed' = (composed \/ composite)
    /\ UNCHANGED <<tokens, input>>

Token ==
    /\ status = "ready"
    /\ \E T \in Types :
          Call([op |-> "token", T |-> T], token(buffer, reader, T), FALSE)

String ==
    /\ status = "ready"
    /\ Call([op |-> "string", T |-> "String"], string(buffer, reader), FALSE)

Chars ==
    /\ status = "ready"
    /\ Call([op |-> "chars", T |-> "String"], chars(buffer, reader), FALSE)

Vec ==
    /\ status = "ready"
    /\ ~composed
    /\ \E n \in 0..MaxN : \E T \in Types :
          Call([op |-> "vec", n |-> n, T |-> T], vec(buffer, reader, n, T), TRUE)

Matrix ==
    /\ status = "ready"
    /\ ~composed
    /\ \E rows \in 0..MaxN : \E cols \in 0..MaxN : \E T \in Types :
          Call([op |-> "matrix", rows |-> rows, cols |-> cols, T |-> T],
               matrix(buffer, reader, rows, cols, T), TRUE)

Graph ==
    /\ status = "ready"
    /\ ~composed
    /\ \E n \in 0..MaxN : \E m \in 0..MaxN : \E directed \in BOOLEAN :
          Call([op |-> "graph", n |-> n, m |-> m, directed |-> directed],
               graph(buffer, reader, n, m, directed), TRUE)

(* Single-token reads over word streams. *)
Init == InitOver(WordTokens, Styles, MaxWords, MaxWordLines)

Next == Token \/ String \/ Chars

Spec == Init /\ [][Next]_vars

(* vec and matrix, with single-token reads before and after. *)
InitVec == InitOver(VecTokens, Styles, MaxTokens, MaxLines)

NextVec == Vec \/ Matrix \/ Token

SpecVec == InitVec /\ [][NextVec]_vars

(* graph over streams of vertex numbers, written as the tests write them  *)
(* (one space between tokens), with string() reads before and after.      *)
InitGraph == InitOver(VertexTokens, {"tight"}, MaxTokens, MaxLines)

NextGraph == Graph \/ String

SpecGraph == InitGraph /\ [][NextGraph]_vars

----------------------------------------------------------------------------
(* What the claims speak of. *)

SingleOps == {"token", "string", "chars"}

(* The value a token of the stream has when read as T. *)
Typed(tk, T) == IF T = "String" THEN tk.text ELSE tk.num

Parseable(tk, T) == T = "String" \/ tk.num >= 0

(* The tokens of the stream not yet returned when the last call was made. *)
Remaining == Len(tokens) - last.pre.nreads

(* The i-th token after those returned before the last call. *)
Nth(i) == tokens[last.pre.nreads + i]

(* The fragments of a line, stated by position: the k-th fragment runs     *)
(* from the k-th start of a run of non-whitespace to the k-th end of one.  *)
RunStarts(line) ==
    {i \in 1..Len(line) :
        ~IsWhitespace(line[i]) /\ (i = 1 \/ IsWhitespace(line[i - 1]))}

RunEnds(line) ==
    {i \in 1..Len(line) :
        ~IsWhitespace(line[i]) /\ (i = Len(line) \/ IsWhitespace(line[i + 1]))}

Kth(S, k) == CHOOSE x \in S : Cardinality({y \in S : y < x}) = k - 1

Fragments(line) ==
    [k \in 1..Cardinality(RunStarts(line)) |->
        SubSeq(line, Kth(RunStarts(line), k), Kth(RunEnds(line), k))]

(* One line as read_line delivers it: it ends at its first line break, or  *)
(* holds none and runs to the end of the stream.                           *)
IsOneLine(line, rest) ==
    /\ \A j \in 1..(Len(line) - 1) : line[j] # "\n"
    /\ line = <<>> \/ line[Len(line)] = "\n" \/ rest = <<>>

----------------------------------------------------------------------------
(* C1: the single-token reads return the tokens of the stream in source    *)
(* order, one per call, none skipped and none repeated, each with the      *)
(* value of its type, however the tokens are spread over lines; a read     *)
(* returns whenever a token it can parse is left.                          *)
C1_TokensInSourceOrder ==
    /\ Len(reads) <= Len(tokens)
    /\ reads = Take(Texts(tokens), Len(reads))
    /\ last.op \in SingleOps =>
         /\ (Remaining > 0 /\ Parseable(Nth(1), last.args.T)) => last.outcome = "ok"
         /\ last.outcome = "ok" =>
              /\ Len(reads) = last.pre.nreads + 1
              /\ last.out = Typed(tokens[Len(reads)], last.args.T)

(* Three reads returned three tokens that stood on three different lines   *)
(* with a line without tokens before them.                                 *)
C1_Witness ==
    /\ status = "ready"
    /\ last.op = "token"
    /\ Len(reads) = 3
    /\ reader = <<>>
    /\ \E i \in 1..(Len(input) - 1) : input[i] = "\n" /\ input[i + 1] = "\n"
    /\ tokens[1] # tokens[2]

(* C2: a single-token read made with an empty queue on a stream that holds *)
(* no further token aborts.                                                *)
C2_ExhaustedReadAborts ==
    ( /\ last.op \in SingleOps
      /\ last.pre.buffer = <<>>
      /\ \A i \in 1..Len(last.pre.reader) : IsWhitespace(last.pre.reader[i]) )
    => status = "panicked"

(* C3: token::<usize>() on a token that is no number aborts; it returns no *)
(* value and the scanner is not left ready.                                *)
C3_ParseMismatchAborts ==
    ( /\ last.op = "token"
      /\ last.args.T = "usize"
      /\ Remaining > 0
      /\ Nth(1).num < 0 )
    => /\ status = "panicked"
       /\ last.outcome = "panic"
       /\ last.why = "parse"
       /\ last.out = <<>>

(* The second token of the stream, "ab", was asked for as a usize. *)
C3_Witness ==
    /\ last.op = "token"
    /\ last.args.T = "usize"
    /\ last.pre.nreads = 1
    /\ Remaining > 0
    /\ Nth(1).text = <<"a", "b">>
    /\ status = "panicked"

(* C10: a single-token read that finds the queue non-empty removes one     *)
(* token and reads nothing; one that finds it empty reads whole lines, one *)
(* per refill and in stream order, every line but the last without tokens, *)
(* and the last line's fragments are the token returned followed by the    *)
(* new queue; the queue always holds the next tokens of the stream.        *)
C10_RefillOnlyWhenEmpty ==
    /\ reads \o Reverse(buffer) = Take(Texts(tokens), Len(reads) + Len(buffer))
    /\ Len(reads) + Len(buffer) <= Len(tokens)
    /\ last.op \in SingleOps =>
         /\ last.pre.buffer # <<>> =>
              /\ last.lines = <<>>
              /\ reader = last.pre.reader
              /\ buffer = Front(last.pre.buffer)
              /\ reads[Len(reads)] = last.pre.buffer[Len(last.pre.buffer)]
         /\ last.pre.buffer = <<>> =>
              /\ Len(last.lines) >= 1
              /\ Flatten(last.lines) \o reader = last.pre.reader
              /\ \A i \in 1..Len(last.lines) :
                    IsOneLine(last.lines[i],
                              Flatten(Drop(last.lines, i)) \o reader)
              /\ \A i \in 1..(Len(last.lines) - 1) :
                    /\ last.lines[i] # <<>>
                    /\ Fragments(last.lines[i]) = <<>>
              /\ Fragments(last.lines[Len(last.lines)]) =
                    (IF last.outcome = "spin" THEN <<>>
                     ELSE <<reads[Len(reads)]>>) \o Reverse(buffer)

(* A read refilled from the third line, after two lines without tokens,    *)
(* and left a token pending.                                               *)
C10_Witness ==
    /\ last.op \in SingleOps
    /\ last.pre.buffer = <<>>
    /\ Len(last.lines) = 3
    /\ Len(buffer) = 1
    /\ last.outcome = "ok"

----------------------------------------------------------------------------
(* n consecutive calls of token::<T>(), made one after the other: the      *)
(* values returned and the state left, or how the first call that does not *)
(* return ends.                                                            *)
RECURSIVE TokenCalls(_, _, _, _, _)
TokenCalls(buf, rd, n, T, vals) ==
    IF n = 0
    THEN [outcome |-> "ok", vals |-> vals, buffer |-> buf, reader |-> rd]
    ELSE LET r == token(buf, rd, T)
         IN  IF r.outcome = "ok"
             THEN TokenCalls(r.buffer, r.reader, n - 1, T, vals \o <<r.val>>)
             ELSE [outcome |-> r.outcome, vals |-> vals, buffer |-> r.buffer,
                   reader |-> r.reader]

(* The next k tokens of the stream are there and can be read as T. *)
CanRead(k, T) ==
    /\ k <= Remaining
    /\ \A i \in 1..k : Parseable(Nth(i), T)

(* C4: vec(n) returns what n consecutive token() calls return and leaves   *)
(* the scanner in the state they leave; when n tokens readable as T are    *)
(* left it returns exactly those n, in order, and the read after it        *)
(* returns the token after them; vec(0) changes nothing.                   *)
C4_VecIsNTokenCalls ==
    /\ reads = Take(Texts(tokens), Len(reads))
    /\ last.op = "vec" =>
         LET n == last.args.n
             T == last.args.T
             c == TokenCalls(last.pre.buffer, last.pre.reader, n, T, <<>>)
         IN  /\ last.outcome = c.outcome
             /\ buffer = c.buffer
             /\ reader = c.reader
             /\ last.outcome = "ok" => last.out = c.vals /\ Len(last.out) = n
             /\ CanRead(n, T) =>
                  /\ last.outcome = "ok"
                  /\ Len(reads) = last.pre.nreads + n
                  /\ last.out = [i \in 1..n |-> Typed(Nth(i), T)]
             /\ n = 0 =>
                  /\ last.outcome = "ok"
                  /\ buffer = last.pre.buffer
                  /\ reader = last.pre.reader
    /\ (last.op = "token" /\ last.outcome = "ok") =>
         /\ Len(reads) = last.pre.nreads + 1
         /\ last.out = Typed(Nth(1), last.args.T)

(* vec(2) was called with a token pending in the queue, read a further     *)
(* line, returned two values and left tokens for the next read.            *)
C4_Witness ==
    /\ last.op = "vec"
    /\ last.args.n = 2
    /\ last.outcome = "ok"
    /\ Len(last.pre.buffer) = 1
    /\ Len(last.lines) = 1
    /\ Len(reads) < Len(tokens)

(* C5: matrix(rows, cols) ends as vec(rows * cols) ends on the same state; *)
(* when it returns it returns `rows` rows of `cols` values whose           *)
(* concatenation is what vec(rows * cols) returns, the value in row r and  *)
(* column c being the ((r - 1) * cols + c)-th next token of the stream.    *)
C5_MatrixIsReshapedVec ==
    last.op = "matrix" =>
        LET rows == last.args.rows
            cols == last.args.cols
            T == last.args.T
            v == vec(last.pre.buffer, last.pre.reader, rows * cols, T)
        IN  /\ CanRead(rows * cols, T) => last.outcome = "ok"
            /\ last.outcome = "ok" =>
                 /\ v.outcome = "ok"
                 /\ Len(last.out) = rows
                 /\ \A r \in 1..rows : Len(last.out[r]) = cols
                 /\ Flatten(last.out) = v.val
                 /\ buffer = v.buffer
                 /\ reader = v.reader
                 /\ \A r \in 1..rows : \A c \in 1..cols :
                       last.out[r][c] = Typed(Nth((r - 1) * cols + c), T)

(* matrix(2, 2) returned; its four tokens stood on two lines, one on the   *)
(* first and three on the second.                                          *)
C5_Witness ==
    /\ last.op = "matrix"
    /\ last.args.rows = 2
    /\ last.args.cols = 2
    /\ last.outcome = "ok"
    /\ Len(last.lines) = 2
    /\ Len(Fragments(last.lines[1])) = 1
    /\ last.out[1][1] # last.out[1][2]

----------------------------------------------------------------------------
(* The edges of the stream as the last call, a graph call, meets them: the *)
(* i-th edge is the pair of the (2i - 1)-th and the 2i-th next tokens.     *)
EdgeU(i) == Nth(2 * i - 1).num

EdgeV(i) == Nth(2 * i).num

(* How many of the m edges stand whole in the stream. *)
WholeEdges ==
    IF 2 * last.args.m <= Remaining THEN last.args.m ELSE Remaining \div 2

GraphReturned == last.op = "graph" /\ last.outcome = "ok"

(* The list of vertex w after the edges i..m, each edge (u, v) giving v to *)
(* the list of u and, in an undirected graph, then u to the list of v.     *)
RECURSIVE Neighbours(_, _, _, _)
Neighbours(w, i, m, directed) ==
    IF i > m THEN <<>>
    ELSE (IF EdgeU(i) = w THEN <<EdgeV(i)>> ELSE <<>>)
         \o (IF ~directed /\ EdgeV(i) = w THEN <<EdgeU(i)>> ELSE <<>>)
         \o Neighbours(w, i + 1, m, directed)

Occurrences(s, x) == Cardinality({j \in 1..Len(s) : s[j] = x})

(* C6: a graph call that returns has read exactly m pairs of tokens, and   *)
(* the list of every vertex holds, in edge order, v for each edge (u, v)   *)
(* leaving it and, only in an undirected graph, u for each edge (u, v)     *)
(* entering it; nothing is sorted and nothing removed.  The call returns   *)
(* whenever m edges with endpoints in 0..n are left.                       *)
C6_GraphAdjacency ==
    last.op = "graph" =>
        LET n == last.args.n
            m == last.args.m
            directed == last.args.directed
        IN  /\ ( /\ 2 * m <= Remaining
                 /\ \A i \in 1..m : EdgeU(i) <= n /\ EdgeV(i) <= n )
               => last.outcome = "ok"
            /\ last.outcome = "ok" =>
                 /\ Len(reads) = last.pre.nreads + 2 * m
                 /\ \A w \in 0..n :
                       last.out[w + 1] = Neighbours(w, 1, m, directed)

(* graph(2, 2, false) on the edges (1, 2), (2, 1): both lists of length 2. *)
C6_Witness ==
    /\ GraphReturned
    /\ last.args.n = 2 /\ last.args.m = 2 /\ ~last.args.directed
    /\ last.out = << <<>>, <<2, 2>>, <<1, 1>> >>
    /\ EdgeU(1) = 1 /\ EdgeU(2) = 2

C8_AnyOutOfRangeEndpointAborts ==
    ( /\ last.op = "graph"
      /\ \E i \in 1..WholeEdges : EdgeU(i) > last.args.n \/ EdgeV(i) > last.args.n )
    => last.outcome # "ok"

(* C8 as amended: the call aborts with an index out of bounds at the first *)
(* edge (u, v) with u > n or, in an undirected graph only, v > n, having   *)
(* read both tokens of it; in a directed graph v is never an index, so an  *)
(* edge with u <= n < v does not abort the call.                           *)
C8_OutOfRangeIndexAborts ==
    last.op = "graph" =>
        LET n == last.args.n
            Bad(i) == \/ EdgeU(i) > n
                      \/ ~last.args.directed /\ EdgeV(i) > n
            bad == {i \in 1..WholeEdges : Bad(i)}
        IN  /\ bad # {} =>
                 /\ last.outcome = "panic"
                 /\ last.why = "index"
                 /\ \E i \in bad :
                       /\ \A j \in bad : i <= j
                       /\ Len(reads) = last.pre.nreads + 2 * i
            /\ bad = {} =>
                 last.outcome = (IF WholeEdges = last.args.m THEN "ok" ELSE "spin")

(* A directed graph(1, 2, true) kept the edge (1, 2) and aborted at the    *)
(* second edge, which leaves vertex 2 > n.                                 *)
C8_Witness ==
    /\ last.op = "graph"
    /\ last.args.n = 1 /\ last.args.m = 2 /\ last.args.directed
    /\ last.outcome = "panic" /\ last.why = "index"
    /\ Len(reads) = last.pre.nreads + 4
    /\ EdgeU(1) = 1 /\ EdgeV(1) = 2 /\ EdgeU(2) = 2

(* C9: in the structure a graph call returns, the list of w has one entry  *)
(* per edge leaving w plus, in an undirected graph, one per edge entering  *)
(* w, and w itself stands in it once per self-loop at w in a directed      *)
(* graph and twice per self-loop in an undirected one: repeated edges and  *)
(* self-loops are all kept.                                                *)
C9_SelfLoopsAndDuplicatesKept ==
    GraphReturned =>
        LET m == last.args.m
            directed == last.args.directed
            Out(w) == Cardinality({i \in 1..m : EdgeU(i) = w})
            In(w) == Cardinality({i \in 1..m : EdgeV(i) = w})
            Loops(w) == Cardinality({i \in 1..m : EdgeU(i) = w /\ EdgeV(i) = w})
        IN  \A w \in 0..last.args.n :
                /\ Len(last.out[w + 1]) = Out(w) + (IF directed THEN 0 ELSE In(w))
                /\ Occurrences(last.out[w + 1], w) =
                      Loops(w) * (IF directed THEN 1 ELSE 2)

(* graph(2, 2, false) on the self-loop (1, 1) given twice: vertex 1 has    *)
(* itself four times.                                                      *)
C9_Witness ==
    /\ GraphReturned
    /\ last.args.n = 2 /\ last.args.m = 2 /\ ~last.args.directed
    /\ last.out[2] = <<1, 1, 1, 1>>

====
